---------------------------- MODULE Spec2Model ----------------------------
(***************************************************************************)
(* Meeting Scheduler REST API (Express + Firebase Admin).                  *)
(*                                                                         *)
(* The model follows src/unnamed/part_000, the variant of the server with  *)
(* participant management; src/index.js is the same server without the    *)
(* participants routes and without `participants` in Create and Update.   *)
(*                                                                         *)
(* A request is a small process: it waits for the authentication          *)
(* middleware, then runs its handler, which suspends exactly at its calls  *)
(* to the store (get / add / update / delete).  Each store call is one     *)
(* atomic step together with the synchronous handler code that follows it  *)
(* up to the next await; steps of different requests interleave freely.   *)
(*                                                                         *)
(* Typing assumptions (the data model of the API): text fields are         *)
(* strings or absent, `participants` is an array of user identifiers or   *)
(* absent, the store and the verifier answer every call.                   *)
(***************************************************************************)
EXTENDS Integers, Sequences, FiniteSets, TLC

(***************************************************************************)
(* Bounds of the model.                                                    *)
(***************************************************************************)
MaxClock    == 3      \* last value of the server clock: caps the writes

(***************************************************************************)
(* JavaScript values.                                                      *)
(***************************************************************************)
Undefined    == "undefined"        \* an absent text field
UndefinedArr == <<"undefined">>    \* an absent array field
NaN          == -1                 \* time value of an Invalid Date

Truthy(s) == s # Undefined /\ s # ""

Range(s) == {s[i] : i \in 1..Len(s)}

Includes(arr, x) == x \in Range(arr)

RECURSIVE FilterOut(_, _)
FilterOut(arr, x) ==
    IF arr = <<>> THEN <<>>
    ELSE IF Head(arr) = x THEN FilterOut(Tail(arr), x)
         ELSE <<Head(arr)>> \o FilterOut(Tail(arr), x)

NoDuplicates(arr) == \A i, j \in 1..Len(arr) : arr[i] = arr[j] => i = j

(***************************************************************************)
(* Dates.  Time values are milliseconds since the epoch; the server clock  *)
(* `now` counts the first milliseconds of 1970.                            *)
(***************************************************************************)
ParseDate(s) ==
    CASE s = "1970-01-01"               -> 0
      [] s = "1970-01-01T00:00:00.000Z" -> 0
      [] OTHER                          -> NaN

Pad3(n) == IF n < 10 THEN "00" \o ToString(n)
           ELSE IF n < 100 THEN "0" \o ToString(n) ELSE ToString(n)

ToISOString(t) == "1970-01-01T00:00:00." \o Pad3(t) \o "Z"

(***************************************************************************)
(* Identity verifier.                                                      *)
(***************************************************************************)
Users == {"u1", "u2", "u3"}

TokenOf(u) == "token-" \o u

\* admin.auth().verifyIdToken: the uid of a valid token, Undefined if it throws
VerifyIdToken(token) ==
    IF \E u \in Users : token = <<TokenOf(u)>>
    THEN (CHOOSE u \in Users : token = <<TokenOf(u)>>)
    ELSE Undefined

\* A header is a sequence of pieces; the piece "Bearer " is the literal
\* prefix the middleware looks for, <<>> is a missing (or empty) header.
Bearer == "Bearer "

StartsWithBearer(h) == Len(h) >= 1 /\ h[1] = Bearer

RECURSIVE UpToBearer(_)
UpToBearer(h) ==
    IF h = <<>> \/ Head(h) = Bearer THEN <<>>
    ELSE <<Head(h)>> \o UpToBearer(Tail(h))

\* authHeader.split('Bearer ')[1] for a header that starts with 'Bearer '
SplitBearer1(h) == UpToBearer(Tail(h))

(***************************************************************************)
(* Documents of the `meetings` collection.                                 *)
(***************************************************************************)
\* The identifiers the store assigns; an identifier is assigned once, so
\* the identifier of a deleted document stays unknown for ever.
MeetingIds == {"m1"}

NoDoc == [exists |-> FALSE]

Ops == {"create", "listOwned", "listParticipating", "get", "update",
        "delete", "addParticipant", "removeParticipant"}

IdOps == {"get", "update", "delete", "addParticipant", "removeParticipant"}

EmptyBody == [title |-> Undefined, date |-> Undefined, location |-> Undefined,
              notes |-> Undefined, participants |-> UndefinedArr,
              participantId |-> Undefined, createdBy |-> Undefined]

(***************************************************************************)
(* Requests the clients send.  A request is its route, its Authorization   *)
(* header, its path parameters and its JSON body.                          *)
(***************************************************************************)
GoodHeader(u) == <<Bearer, TokenOf(u)>>

BadHeaders == { <<>>,                               \* no header
                <<TokenOf("u1")>>,                  \* a bare token
                <<"Basic ", TokenOf("u1")>>,        \* another scheme
                <<Bearer, "expired">>,              \* the verifier rejects it
                <<Bearer, Bearer, TokenOf("u1")>> } \* the token is ''

Request(op, header, id, participantId, body) ==
    [op |-> op, header |-> header, id |-> id,
     participantId |-> participantId, body |-> body]

CreateBodies ==
    { EmptyBody,
      [EmptyBody EXCEPT !.title = ""],
      [EmptyBody EXCEPT !.title = "Standup"],
      [EmptyBody EXCEPT !.title = "Standup", !.date = ""],
      [EmptyBody EXCEPT !.title = "Standup", !.date = "not-a-date"],
      [EmptyBody EXCEPT !.date = "not-a-date"],
      [EmptyBody EXCEPT !.title = "Standup", !.date = "1970-01-01",
                        !.location = "Room A", !.notes = "agenda",
                        !.participants = <<"u2">>, !.createdBy = "u3"] }

UpdateBodies ==
    { EmptyBody,
      [EmptyBody EXCEPT !.location = "Room B"],
      [EmptyBody EXCEPT !.title = ""],
      [EmptyBody EXCEPT !.date = "1970-01-01"],
      [EmptyBody EXCEPT !.date = "not-a-date"],
      [EmptyBody EXCEPT !.participants = <<"u3">>],
      [EmptyBody EXCEPT !.title = "Retro", !.notes = "minutes",
                        !.createdBy = "u2"] }

AddBodies == { [EmptyBody EXCEPT !.participantId = p] :
                   p \in {Undefined, "", "u2", "u3"} }

\* What one client, sending one request at a time, may send.
SerialRequests ==
    LET good == {GoodHeader(u) : u \in Users} IN
         { Request("create", h, "m1", Undefined, b) :
               h \in good, b \in CreateBodies }
    \cup { Request(op, h, "m1", Undefined, EmptyBody) :
               op \in {"listOwned", "listParticipating"}, h \in good }
    \cup { Request(op, h, i, Undefined, EmptyBody) :
               op \in {"get", "delete"}, h \in good, i \in MeetingIds }
    \cup { Request("update", h, i, Undefined, b) :
               h \in good, i \in MeetingIds, b \in UpdateBodies }
    \cup { Request("addParticipant", h, i, Undefined, b) :
               h \in good, i \in MeetingIds, b \in AddBodies }
    \cup { Request("removeParticipant", h, i, p, EmptyBody) :
               h \in good, i \in MeetingIds, p \in {"u2", "u3"} }
    \cup { Request(op, h, "m1", "u2", [EmptyBody EXCEPT !.title = "Standup",
                                                     !.participantId = "u2"]) :
               op \in Ops, h \in BadHeaders }

\* What each of two clients, sending at the same time, may send.
ConcurrentRequests ==
         { Request("create", GoodHeader("u1"), "m1", Undefined,
                   [EmptyBody EXCEPT !.title = "Standup"]) }
    \cup { Request(op, GoodHeader("u1"), i, Undefined, EmptyBody) :
               op \in {"get", "delete"}, i \in MeetingIds }
    \cup { Request("update", GoodHeader("u1"), i, Undefined, b) :
               i \in MeetingIds,
               b \in { [EmptyBody EXCEPT !.location = "Room B"],
                       [EmptyBody EXCEPT !.date = "1970-01-01"],
                       [EmptyBody EXCEPT !.participants = <<"u3">>] } }
    \cup { Request("update", GoodHeader("u2"), i, Undefined,
                   [EmptyBody EXCEPT !.location = "Room B"]) :
               i \in MeetingIds }
    \cup { Request("addParticipant", GoodHeader("u1"), i, Undefined,
                   [EmptyBody EXCEPT !.participantId = p]) :
               i \in MeetingIds, p \in {"u2", "u3"} }
    \cup { Request("removeParticipant", GoodHeader(u), i, "u2", EmptyBody) :
               u \in {"u1", "u2"}, i \in MeetingIds }

Slots == {"r1", "r2"}

Clients(w) == IF w = "serial" THEN {"r1"} ELSE Slots

Requests(w) == IF w = "serial" THEN SerialRequests ELSE ConcurrentRequests

(***************************************************************************)
(* State.                                                                  *)
(***************************************************************************)
VARIABLES
    store,        \* the `meetings` collection: id -> document or NoDoc
    assigned,     \* the ids the store has assigned to added documents
    now,          \* the server clock, the value of serverTimestamp()
    req,          \* per client: the request it sent and where its handler is
    workload,     \* "serial": one client; "concurrent": two clients
    insertedBy,   \* history: id -> verified uid of the Create that added it
    added         \* history: id -> the participants an Add Participant
                  \* answered 200 for, until a Remove Participant of them,
                  \* an Update supplying participants or a Delete commits

vars == <<store, assigned, now, req, workload, insertedBy, added>>

NoStore == [i \in MeetingIds |-> NoDoc]

IdleReq ==
    [pc |-> "idle", op |-> "create", header |-> <<>>, id |-> "m1",
     participantId |-> Undefined, body |-> EmptyBody,
     user |-> Undefined, meetingData |-> NoDoc, status |-> 0, resp |-> {},
     reads |-> 0, writes |-> 0, pre |-> NoStore,
     alone |-> FALSE]

Init ==
    /\ store = NoStore
    /\ assigned = {}
    /\ now = 1
    /\ req = [r \in Slots |-> IdleReq]
    /\ workload \in {"serial", "concurrent"}
    /\ insertedBy = [i \in MeetingIds |-> Undefined]
    /\ added = [i \in MeetingIds |-> {}]

InFlight(r) == req[r].pc \notin {"idle", "done"}

\* res.status(s).json(...): the request is answered
Respond(rq, s, docs) == [rq EXCEPT !.pc = "done", !.status = s, !.resp = docs]

(***************************************************************************)
(* A client sends a request.  alone and pre are history: whether no other  *)
(* request was in flight when this one arrived nor has arrived since, and, *)
(* as long as that is so, the collection as it was when it arrived.        *)
(***************************************************************************)
Quiet(r) == \A o \in Slots \ {r} : ~InFlight(o)

Arrive(r, q) ==
    /\ r \in Clients(workload)
    /\ ~InFlight(r)
    /\ q \in Requests(workload)
    /\ q.op = "create" => assigned # MeetingIds
    /\ req' = [s \in Slots |->
                 IF s = r
                 THEN [IdleReq EXCEPT
                         !.pc = "auth", !.op = q.op, !.header = q.header,
                         !.id = q.id, !.participantId = q.participantId,
                         !.body = q.body,
                         !.pre = IF Quiet(r) THEN store ELSE NoStore,
                         !.alone = Quiet(r)]
                 ELSE [req[s] EXCEPT !.alone = FALSE, !.pre = NoStore]]
    /\ UNCHANGED <<store, assigned, now, workload, insertedBy, added>>

(***************************************************************************)
(* authenticateUser                                                        *)
(***************************************************************************)
\* slip: any non-empty header is taken for a bearer credential
HeaderAccepted_AnyScheme(h) == h # <<>>

HeaderAccepted(h) == h # <<>> /\ StartsWithBearer(h)

Authenticate(r) ==
    /\ req[r].pc = "auth"
    /\ LET h == req[r].header IN
       IF ~HeaderAccepted(h)
       THEN req' = [req EXCEPT ![r] = Respond(@, 401, {})]
       ELSE LET uid == VerifyIdToken(SplitBearer1(h)) IN
            IF uid = Undefined
            THEN req' = [req EXCEPT ![r] = Respond(@, 401, {})]
            ELSE req' = [req EXCEPT ![r].user = uid, ![r].pc = "handler"]
    /\ UNCHANGED <<store, assigned, now, workload, insertedBy, added>>

(***************************************************************************)
(* POST /api/meetings                                                      *)
(***************************************************************************)
TitleMissing(title) == ~Truthy(title)

\* date ? new Date(date) : new Date()
MeetingDate(date, clock) == IF Truthy(date) THEN ParseDate(date) ELSE clock

MeetingData(b, uid, meetingDate, stamp) ==
    [exists       |-> TRUE,
     title        |-> b.title,
     date         |-> ToISOString(meetingDate),
     location     |-> IF Truthy(b.location) THEN b.location ELSE "",
     notes        |-> IF Truthy(b.notes) THEN b.notes ELSE "",
     participants |-> IF b.participants # UndefinedArr
                      THEN b.participants ELSE <<>>,
     createdBy    |-> uid,
     createdAt    |-> stamp,
     updatedAt    |-> stamp]

CreateMeeting(r) ==
    /\ req[r].pc = "handler"
    /\ req[r].op = "create"
    /\ LET b           == req[r].body
           meetingDate == MeetingDate(b.date, now)
       IN
       IF TitleMissing(b.title) \/ meetingDate = NaN
       THEN /\ req' = [req EXCEPT ![r] = Respond(@, 400, {})]
            /\ UNCHANGED <<store, assigned, now, insertedBy>>
       ELSE \E id \in MeetingIds \ assigned :
            /\ now <= MaxClock
            /\ LET doc == MeetingData(b, req[r].user, meetingDate, now) IN
               /\ store' = [store EXCEPT ![id] = doc]
               /\ req' = [req EXCEPT
                            ![r] = Respond([@ EXCEPT !.writes = @ + 1,
                                                     !.id = id],
                                           201, {<<id, doc>>})]
            /\ insertedBy' = [insertedBy EXCEPT ![id] = req[r].user]
            /\ assigned' = assigned \cup {id}
            /\ now' = now + 1
    /\ UNCHANGED <<workload, added>>

(***************************************************************************)
(* GET /api/meetings and GET /api/meetings/participating                   *)
(***************************************************************************)
OwnedBy(uid) ==
    {<<i, store[i]>> : i \in {j \in MeetingIds :
                                store[j].exists /\ store[j].createdBy = uid}}

ParticipatingIn(uid) ==
    {<<i, store[i]>> : i \in {j \in MeetingIds :
                                /\ store[j].exists
                                /\ Includes(store[j].participants, uid)}}

ListOwned(r) ==
    /\ req[r].pc = "handler"
    /\ req[r].op = "listOwned"
    /\ req' = [req EXCEPT ![r] = Respond([@ EXCEPT !.reads = @ + 1],
                                         200, OwnedBy(req[r].user))]
    /\ UNCHANGED <<store, assigned, now, workload, insertedBy, added>>

ListParticipating(r) ==
    /\ req[r].pc = "handler"
    /\ req[r].op = "listParticipating"
    /\ req' = [req EXCEPT ![r] = Respond([@ EXCEPT !.reads = @ + 1],
                                         200, ParticipatingIn(req[r].user))]
    /\ UNCHANGED <<store, assigned, now, workload, insertedBy, added>>

(***************************************************************************)
(* GET /api/meetings/:id                                                   *)
(***************************************************************************)
\* slip: the negation of the membership test is lost
AccessDenied_LostNegation(meetingData, userId) ==
    /\ meetingData.createdBy # userId
    /\ Includes(meetingData.participants, userId)

\* meetingData.createdBy !== userId && !meetingData.participants?.includes(userId)
AccessDenied(meetingData, userId) ==
    /\ meetingData.createdBy # userId
    /\ ~Includes(meetingData.participants, userId)

GetMeeting(r) ==
    /\ req[r].pc = "handler"
    /\ req[r].op = "get"
    /\ LET meetingData == store[req[r].id]
           rq == [req[r] EXCEPT !.reads = @ + 1, !.meetingData = meetingData]
       IN
       req' = [req EXCEPT ![r] =
                 IF ~meetingData.exists THEN Respond(rq, 404, {})
                 ELSE IF AccessDenied(meetingData, req[r].user)
                      THEN Respond(rq, 403, {})
                      ELSE Respond(rq, 200, {<<req[r].id, meetingData>>})]
    /\ UNCHANGED <<store, assigned, now, workload, insertedBy, added>>

(***************************************************************************)
(* The store's update(): only the fields of the payload are written; it    *)
(* fails on a document that does not exist.  A field the payload does not  *)
(* carry is Undefined (UndefinedArr for participants).                     *)
(***************************************************************************)
NoUpdate == [title |-> Undefined, date |-> Undefined, location |-> Undefined,
             notes |-> Undefined, participants |-> UndefinedArr,
             createdBy |-> Undefined]

ApplyUpdate(doc, updateData, stamp) ==
    [doc EXCEPT
       !.title        = IF updateData.title # Undefined
                        THEN updateData.title ELSE @,
       !.date         = IF updateData.date # Undefined
                        THEN updateData.date ELSE @,
       !.location     = IF updateData.location # Undefined
                        THEN updateData.location ELSE @,
       !.notes        = IF updateData.notes # Undefined
                        THEN updateData.notes ELSE @,
       !.participants = IF updateData.participants # UndefinedArr
                        THEN updateData.participants ELSE @,
       !.createdBy    = IF updateData.createdBy # Undefined
                        THEN updateData.createdBy ELSE @,
       !.updatedAt    = stamp]

\* One update() call of request r with the given payload, and the status
\* the handler answers when the call throws.
StoreUpdate(r, updateData, next) ==
    IF ~store[req[r].id].exists
    THEN /\ req' = [req EXCEPT ![r] = Respond([@ EXCEPT !.writes = @ + 1],
                                              500, {})]
         /\ UNCHANGED <<store, now>>
    ELSE /\ now <= MaxClock
         /\ store' = [store EXCEPT
                        ![req[r].id] = ApplyUpdate(@, updateData, now)]
         /\ now' = now + 1
         /\ req' = [req EXCEPT ![r] = next]

(***************************************************************************)
(* PUT /api/meetings/:id                                                   *)
(***************************************************************************)
\* slip: the read-access test of GET is used for the write routes
NotCreator_ParticipantsAllowed(meetingData, userId) ==
    /\ meetingData.createdBy # userId
    /\ ~Includes(meetingData.participants, userId)

NotCreator(meetingData, userId) == meetingData.createdBy # userId

\* let meetingDate = meetingData.date; if (date) { ... newDate.toISOString() }
UpdatedDate(meetingData, date) ==
    IF Truthy(date) THEN ToISOString(ParseDate(date)) ELSE meetingData.date

\* slip: the whole body is copied into the payload
UpdateData_WholeBody(meetingData, b) ==
    [NoUpdate EXCEPT
       !.title        = b.title,
       !.date         = UpdatedDate(meetingData, b.date),
       !.location     = b.location,
       !.notes        = b.notes,
       !.participants = b.participants,
       !.createdBy    = b.createdBy]

\* slip: absent text fields get the defaults of Create
UpdateData_CreateDefaults(meetingData, b) ==
    [NoUpdate EXCEPT
       !.title        = b.title,
       !.date         = UpdatedDate(meetingData, b.date),
       !.location     = IF Truthy(b.location) THEN b.location ELSE "",
       !.notes        = IF Truthy(b.notes) THEN b.notes ELSE "",
       !.participants = b.participants]

\* slip: absent participants get the default of Create
UpdateData_ParticipantsDefault(meetingData, b) ==
    [NoUpdate EXCEPT
       !.title        = b.title,
       !.date         = UpdatedDate(meetingData, b.date),
       !.location     = b.location,
       !.notes        = b.notes,
       !.participants = IF b.participants # UndefinedArr
                        THEN b.participants ELSE <<>>]

UpdateData(meetingData, b) ==
    [NoUpdate EXCEPT
       !.title        = b.title,
       !.date         = UpdatedDate(meetingData, b.date),
       !.location     = b.location,
       !.notes        = b.notes,
       !.participants = b.participants]

UpdateRead(r) ==
    /\ req[r].pc = "handler"
    /\ req[r].op = "update"
    /\ LET meetingData == store[req[r].id]
           rq == [req[r] EXCEPT !.reads = @ + 1, !.meetingData = meetingData]
           date == req[r].body.date
       IN
       req' = [req EXCEPT ![r] =
                 IF ~meetingData.exists THEN Respond(rq, 404, {})
                 ELSE IF NotCreator(meetingData, req[r].user)
                      THEN Respond(rq, 403, {})
                 ELSE IF Truthy(date) /\ ParseDate(date) = NaN
                      THEN Respond(rq, 400, {})
                 ELSE [rq EXCEPT !.pc = "write"]]
    /\ UNCHANGED <<store, assigned, now, workload, insertedBy, added>>

UpdateWrite(r) ==
    /\ req[r].pc = "write"
    /\ req[r].op = "update"
    /\ StoreUpdate(r, UpdateData(req[r].meetingData, req[r].body),
                   [req[r] EXCEPT !.writes = @ + 1, !.pc = "reget"])
    /\ added' = IF /\ store[req[r].id].exists
                   /\ req[r].body.participants # UndefinedArr
                THEN [added EXCEPT ![req[r].id] = {}] ELSE added
    /\ UNCHANGED <<assigned, workload, insertedBy>>

\* the second get(); updatedMeetingData.createdAt throws if the document
\* has been deleted in between
UpdateReget(r) ==
    /\ req[r].pc = "reget"
    /\ req[r].op = "update"
    /\ LET updatedMeetingData == store[req[r].id]
           rq == [req[r] EXCEPT !.reads = @ + 1]
       IN
       req' = [req EXCEPT ![r] =
                 IF ~updatedMeetingData.exists THEN Respond(rq, 500, {})
                 ELSE Respond(rq, 200, {<<req[r].id, updatedMeetingData>>})]
    /\ UNCHANGED <<store, assigned, now, workload, insertedBy, added>>

(***************************************************************************)
(* DELETE /api/meetings/:id                                                *)
(***************************************************************************)
\* slip: the existence test is missing and meetingData?.createdBy is compared
DeleteRead_NoExistenceTest(r) ==
    /\ req[r].pc = "handler"
    /\ req[r].op = "delete"
    /\ LET meetingData == store[req[r].id]
           rq == [req[r] EXCEPT !.reads = @ + 1, !.meetingData = meetingData]
       IN
       req' = [req EXCEPT ![r] =
                 IF ~meetingData.exists THEN Respond(rq, 403, {})
                 ELSE IF NotCreator(meetingData, req[r].user)
                      THEN Respond(rq, 403, {})
                 ELSE [rq EXCEPT !.pc = "write"]]
    /\ UNCHANGED <<store, assigned, now, workload, insertedBy, added>>

DeleteRead(r) ==
    /\ req[r].pc = "handler"
    /\ req[r].op = "delete"
    /\ LET meetingData == store[req[r].id]
           rq == [req[r] EXCEPT !.reads = @ + 1, !.meetingData = meetingData]
       IN
       req' = [req EXCEPT ![r] =
                 IF ~meetingData.exists THEN Respond(rq, 404, {})
                 ELSE IF NotCreator(meetingData, req[r].user)
                      THEN Respond(rq, 403, {})
                 ELSE [rq EXCEPT !.pc = "write"]]
    /\ UNCHANGED <<store, assigned, now, workload, insertedBy, added>>

\* the store's delete() succeeds whether or not the document still exists
DeleteWrite(r) ==
    /\ req[r].pc = "write"
    /\ req[r].op = "delete"
    /\ store' = [store EXCEPT ![req[r].id] = NoDoc]
    /\ req' = [req EXCEPT ![r] = Respond([@ EXCEPT !.writes = @ + 1], 200, {})]
    /\ added' = [added EXCEPT ![req[r].id] = {}]
    /\ UNCHANGED <<assigned, now, workload, insertedBy>>

(***************************************************************************)
(* POST /api/meetings/:id/participants                                     *)
(***************************************************************************)
ParticipantIdMissing(participantId) == ~Truthy(participantId)

\* slip: the duplicate test is missing
AlreadyAdded_Unchecked(participants, participantId) == FALSE

AlreadyAdded(participants, participantId) == Includes(participants, participantId)

AddParticipantRead(r) ==
    /\ req[r].pc = "handler"
    /\ req[r].op = "addParticipant"
    /\ LET participantId == req[r].body.participantId
           meetingData   == store[req[r].id]
           rq == [req[r] EXCEPT !.reads = @ + 1, !.meetingData = meetingData]
       IN
       req' = [req EXCEPT ![r] =
                 IF ParticipantIdMissing(participantId)
                      THEN Respond(req[r], 400, {})
                 ELSE IF ~meetingData.exists THEN Respond(rq, 404, {})
                 ELSE IF NotCreator(meetingData, req[r].user)
                      THEN Respond(rq, 403, {})
                 ELSE IF AlreadyAdded(meetingData.participants, participantId)
                      THEN Respond(rq, 400, {})
                 ELSE [rq EXCEPT !.pc = "write"]]
    /\ UNCHANGED <<store, assigned, now, workload, insertedBy, added>>

AddParticipantWrite(r) ==
    /\ req[r].pc = "write"
    /\ req[r].op = "addParticipant"
    /\ LET participants == Append(req[r].meetingData.participants,
                                  req[r].body.participantId)
       IN StoreUpdate(r, [NoUpdate EXCEPT !.participants = participants],
                      Respond([req[r] EXCEPT !.writes = @ + 1], 200, {}))
    /\ added' = IF store[req[r].id].exists
                THEN [added EXCEPT
                        ![req[r].id] = @ \cup {req[r].body.participantId}]
                ELSE added
    /\ UNCHANGED <<assigned, workload, insertedBy>>

(***************************************************************************)
(* DELETE /api/meetings/:id/participants/:participantId                    *)
(***************************************************************************)
\* slip: === for !== in the self-removal test
RemovalDenied_WrongComparison(meetingData, userId, participantId) ==
    meetingData.createdBy # userId /\ userId = participantId

\* meetingData.createdBy !== userId && userId !== participantId
RemovalDenied(meetingData, userId, participantId) ==
    meetingData.createdBy # userId /\ userId # participantId

RemoveParticipantRead(r) ==
    /\ req[r].pc = "handler"
    /\ req[r].op = "removeParticipant"
    /\ LET participantId == req[r].participantId
           meetingData   == store[req[r].id]
           rq == [req[r] EXCEPT !.reads = @ + 1, !.meetingData = meetingData]
       IN
       req' = [req EXCEPT ![r] =
                 IF ~meetingData.exists THEN Respond(rq, 404, {})
                 ELSE IF RemovalDenied(meetingData, req[r].user, participantId)
                      THEN Respond(rq, 403, {})
                 ELSE IF ~Includes(meetingData.participants, participantId)
                      THEN Respond(rq, 400, {})
                 ELSE [rq EXCEPT !.pc = "write"]]
    /\ UNCHANGED <<store, assigned, now, workload, insertedBy, added>>

RemoveParticipantWrite(r) ==
    /\ req[r].pc = "write"
    /\ req[r].op = "removeParticipant"
    /\ LET updatedParticipants == FilterOut(req[r].meetingData.participants,
                                            req[r].participantId)
       IN StoreUpdate(r, [NoUpdate EXCEPT !.participants = updatedParticipants],
                      Respond([req[r] EXCEPT !.writes = @ + 1], 200, {}))
    /\ added' = IF store[req[r].id].exists
                THEN [added EXCEPT ![req[r].id] = @ \ {req[r].participantId}]
                ELSE added
    /\ UNCHANGED <<assigned, workload, insertedBy>>

Next ==
    \/ \E r \in Slots, q \in SerialRequests \cup ConcurrentRequests : Arrive(r, q)
    \/ \E r \in Slots : Authenticate(r)
    \/ \E r \in Slots : CreateMeeting(r)
    \/ \E r \in Slots : ListOwned(r)
    \/ \E r \in Slots : ListParticipating(r)
    \/ \E r \in Slots : GetMeeting(r)
    \/ \E r \in Slots : UpdateRead(r)
    \/ \E r \in Slots : UpdateWrite(r)
    \/ \E r \in Slots : UpdateReget(r)
    \/ \E r \in Slots : DeleteRead(r)
    \/ \E r \in Slots : DeleteWrite(r)
    \/ \E r \in Slots : AddParticipantRead(r)
    \/ \E r \in Slots : AddParticipantWrite(r)
    \/ \E r \in Slots : RemoveParticipantRead(r)
    \/ \E r \in Slots : RemoveParticipantWrite(r)

Spec == Init /\ [][Next]_vars

(***************************************************************************)
(* Vocabulary of the properties.                                           *)
(***************************************************************************)
Done(r) == req[r].pc = "done"

Authenticated(r) == req[r].user # Undefined

\* the document the handler of r read with its first get()
Snapshot(r) == req[r].meetingData

HasRead(r) == req[r].reads >= 1

\* r ran with no other request around, and its target was stored when it arrived
TargetStored(r) == req[r].alone /\ req[r].pre[req[r].id].exists

\* r ran with no other request around, and its target was not stored then
TargetUnknown(r) == req[r].alone /\ ~req[r].pre[req[r].id].exists

CreatorOnlyOps == {"update", "delete", "addParticipant"}

(***************************************************************************)
(* C1                                                                      *)
(***************************************************************************)
\* C1, as claimed: an authenticated Update, Delete or Add Participant on a
\* stored meeting by a caller who is not its creator is answered 403 and
\* leaves the collection as it was.
C1_AsClaimed ==
    \A r \in Slots :
        ( /\ Done(r) /\ Authenticated(r) /\ req[r].op \in CreatorOnlyOps
          /\ TargetStored(r)
          /\ req[r].pre[req[r].id].createdBy # req[r].user )
        => req[r].status = 403 /\ store = req[r].pre

\* C1, amended: such a request leaves the record as it was and is answered
\* 403, except an Add Participant without participantId, which is answered
\* 400; under any interleaving, a handler that read a record created by
\* somebody else answers 403 and writes nothing.
C1_NonCreatorRejected ==
    \A r \in Slots :
        ( Done(r) /\ Authenticated(r) /\ req[r].op \in CreatorOnlyOps )
        => /\ ( TargetStored(r)
                /\ req[r].pre[req[r].id].createdBy # req[r].user )
              => /\ store = req[r].pre
                 /\ req[r].writes = 0
                 /\ req[r].status =
                      IF /\ req[r].op = "addParticipant"
                         /\ ~Truthy(req[r].body.participantId)
                      THEN 400 ELSE 403
           /\ ( HasRead(r) /\ Snapshot(r).exists
                /\ Snapshot(r).createdBy # req[r].user )
              => req[r].status = 403 /\ req[r].writes = 0

C1_Witness ==
    \E r \in Slots :
        /\ Done(r) /\ Authenticated(r) /\ req[r].op = "addParticipant"
        /\ TargetStored(r)
        /\ req[r].pre[req[r].id].createdBy # req[r].user
        /\ req[r].status = 403

(***************************************************************************)
(* C2                                                                      *)
(***************************************************************************)
RejectedHeader(h) ==
    \/ h = <<>>
    \/ h[1] # Bearer
    \/ VerifyIdToken(SplitBearer1(h)) = Undefined

\* C2: a request of any meeting route whose Authorization header is absent,
\* does not start with 'Bearer ' or carries a token the verifier rejects
\* never reaches its handler, never reads or writes the store, and is
\* answered 401.
C2_GateBeforeHandler ==
    \A r \in Slots :
        ( req[r].pc # "idle" /\ RejectedHeader(req[r].header) )
        => /\ req[r].pc \in {"auth", "done"}
           /\ req[r].user = Undefined
           /\ req[r].reads = 0 /\ req[r].writes = 0
           /\ Done(r) => req[r].status = 401 /\ req[r].resp = {}

C2_Witness ==
    \E r \in Slots :
        /\ Done(r) /\ req[r].op = "delete"
        /\ req[r].header = <<"Basic ", TokenOf("u1")>>
        /\ req[r].status = 401
        /\ store[req[r].id].exists

(***************************************************************************)
(* C3                                                                      *)
(***************************************************************************)
MayRead(doc, uid) == doc.createdBy = uid \/ uid \in Range(doc.participants)

\* C3: Get Meeting By Id that read a stored meeting answers 200 only when
\* the caller is its creator or one of its participants at the read; to
\* every other authenticated caller it answers 403 and returns no record.
C3_GetOnlyCreatorOrParticipant ==
    \A r \in Slots :
        ( /\ Done(r) /\ Authenticated(r) /\ req[r].op = "get"
          /\ HasRead(r) /\ Snapshot(r).exists )
        => /\ req[r].status = 200 => MayRead(Snapshot(r), req[r].user)
           /\ ~MayRead(Snapshot(r), req[r].user)
              => req[r].status = 403 /\ req[r].resp = {}

C3_Witness ==
    \E r \in Slots :
        /\ Done(r) /\ Authenticated(r) /\ req[r].op = "get"
        /\ HasRead(r) /\ Snapshot(r).exists
        /\ Snapshot(r).participants # <<>>
        /\ ~MayRead(Snapshot(r), req[r].user)
        /\ req[r].status = 403

(***************************************************************************)
(* C4                                                                      *)
(***************************************************************************)
\* C4: Remove Participant of p that read a stored meeting: by the creator,
\* with p present, it succeeds (200, p no longer a participant when nothing
\* else ran; the only other outcome is 500 when the meeting was deleted
\* before the write); by somebody else it succeeds only if the caller is p;
\* a caller who is neither the creator nor p is answered 403 and writes
\* nothing.
C4_RemoveParticipantAuthorization ==
    \A r \in Slots :
        ( /\ Done(r) /\ Authenticated(r) /\ req[r].op = "removeParticipant"
          /\ HasRead(r) /\ Snapshot(r).exists )
        => LET c == req[r].user
               p == req[r].participantId
               m == Snapshot(r)
           IN
           /\ ( c = m.createdBy /\ p \in Range(m.participants) )
              => /\ req[r].status \in {200, 500}
                 /\ req[r].status = 500 => ~store[req[r].id].exists
                 /\ req[r].alone
                    => /\ req[r].status = 200
                       /\ p \notin Range(store[req[r].id].participants)
           /\ ( c # m.createdBy /\ req[r].status = 200 ) => c = p
           /\ ( c # m.createdBy /\ c # p )
              => /\ req[r].status = 403 /\ req[r].writes = 0
                 /\ req[r].alone
                    => store[req[r].id].participants = m.participants

C4_Witness ==
    \E r \in Slots :
        /\ Done(r) /\ Authenticated(r) /\ req[r].op = "removeParticipant"
        /\ HasRead(r) /\ Snapshot(r).exists
        /\ req[r].participantId \in Range(Snapshot(r).participants)
        /\ req[r].user # Snapshot(r).createdBy
        /\ req[r].user # req[r].participantId
        /\ req[r].status = 403

(***************************************************************************)
(* C5                                                                      *)
(***************************************************************************)
\* C5: the createdBy of every stored meeting is the verified identity of the
\* caller whose Create inserted it, whatever Update, Add Participant and
\* Remove Participant requests have been served since.
C5_CreatorNeverChanges ==
    \A i \in MeetingIds :
        store[i].exists => store[i].createdBy = insertedBy[i]

C5_Witness ==
    \E r \in Slots :
        /\ Done(r) /\ req[r].op = "update" /\ req[r].status = 200
        /\ req[r].body.createdBy \notin {Undefined, req[r].user}
        /\ store[req[r].id].exists
        /\ store[req[r].id].updatedAt > store[req[r].id].createdAt
        /\ store[req[r].id].createdBy = req[r].user

(***************************************************************************)
(* C6                                                                      *)
(***************************************************************************)
\* C6: every participants list the clients supply through Create and Update
\* being free of duplicates, the stored participants of every meeting are
\* free of duplicates, under any interleaving of the reads and writes of
\* Add Participant, Remove Participant and Update.
C6_NoDuplicateParticipants ==
    \A i \in MeetingIds :
        store[i].exists => NoDuplicates(store[i].participants)

\* two Add Participant of the same identifier, both answered 200
C6_Witness ==
    /\ \A r \in Slots :
           /\ Done(r) /\ req[r].op = "addParticipant" /\ req[r].status = 200
           /\ req[r].body.participantId = "u2"
    /\ \E i \in MeetingIds :
           store[i].exists /\ "u2" \in Range(store[i].participants)

(***************************************************************************)
(* C7                                                                      *)
(***************************************************************************)
\* C7, as claimed: the title of every stored meeting is a non-empty text.
C7_TitleNonEmpty ==
    \A i \in MeetingIds : store[i].exists => Truthy(store[i].title)

(***************************************************************************)
(* C8                                                                      *)
(***************************************************************************)
\* C8, as claimed: an authenticated Get, Update, Delete, Add Participant or
\* Remove Participant naming an identifier that is not in the store is
\* answered 404, whatever its body and path parameters.
C8_AsClaimed ==
    \A r \in Slots :
        ( /\ Done(r) /\ Authenticated(r) /\ req[r].op \in IdOps
          /\ TargetUnknown(r) )
        => req[r].status = 404

\* C8, amended: such a request is answered 404, except an Add Participant
\* without participantId, which is answered 400; under any interleaving, a
\* handler whose get() found no document answers 404 and writes nothing.
C8_UnknownIdNotFound ==
    \A r \in Slots :
        ( Done(r) /\ Authenticated(r) /\ req[r].op \in IdOps )
        => /\ TargetUnknown(r)
              => /\ req[r].status =
                      IF /\ req[r].op = "addParticipant"
                         /\ ~Truthy(req[r].body.participantId)
                      THEN 400 ELSE 404
                 /\ store = req[r].pre
           /\ ( HasRead(r) /\ ~Snapshot(r).exists )
              => req[r].status = 404 /\ req[r].writes = 0

C8_Witness ==
    \E r \in Slots :
        /\ Done(r) /\ Authenticated(r) /\ req[r].op = "update"
        /\ TargetUnknown(r)
        /\ req[r].body.date = "not-a-date"
        /\ req[r].status = 404

(***************************************************************************)
(* C9                                                                      *)
(***************************************************************************)
OnlyLocation(b) ==
    /\ b.location # Undefined
    /\ b.title = Undefined /\ b.date = Undefined /\ b.notes = Undefined
    /\ b.participants = UndefinedArr

\* C9: with no other request in flight, an Update by the creator that
\* supplies only location leaves title, date, notes and participants (and
\* createdBy, createdAt) as they were; location is the supplied one and
\* updatedAt is later.
C9_OnlyLocationChanges ==
    \A r \in Slots :
        ( /\ Done(r) /\ Authenticated(r) /\ req[r].op = "update"
          /\ OnlyLocation(req[r].body)
          /\ TargetStored(r)
          /\ req[r].pre[req[r].id].createdBy = req[r].user )
        => LET before == req[r].pre[req[r].id]
               after  == store[req[r].id]
           IN
           /\ req[r].status = 200
           /\ after = [before EXCEPT !.location = req[r].body.location,
                                     !.updatedAt = after.updatedAt]
           /\ after.updatedAt > before.updatedAt

C9_Witness ==
    \E r \in Slots :
        /\ Done(r) /\ Authenticated(r) /\ req[r].op = "update"
        /\ OnlyLocation(req[r].body)
        /\ TargetStored(r)
        /\ req[r].pre[req[r].id].createdBy = req[r].user
        /\ req[r].pre[req[r].id].notes = "agenda"
        /\ req[r].pre[req[r].id].participants # <<>>
        /\ req[r].pre[req[r].id].location # req[r].body.location
        /\ req[r].status = 200

(***************************************************************************)
(* C10                                                                     *)
(***************************************************************************)
\* C10, as claimed: an authenticated Create whose title is missing or empty,
\* or whose supplied date does not parse, is answered 400 and inserts no
\* record.
C10_AsClaimed ==
    \A r \in Slots :
        ( /\ Done(r) /\ Authenticated(r) /\ req[r].op = "create"
          /\ \/ req[r].body.title \in {Undefined, ""}
             \/ /\ req[r].body.date # Undefined
                /\ ParseDate(req[r].body.date) = NaN )
        => /\ req[r].status = 400
           /\ req[r].writes = 0
           /\ req[r].alone => store = req[r].pre

(***************************************************************************)
(* C11                                                                     *)
(***************************************************************************)
\* the step in which the store commits the update() of request r
UpdateCommits(r) ==
    /\ req[r].op = "update"
    /\ req[r].pc = "write"
    /\ req'[r].pc = "reget"

\* C11, as claimed: the write of an Update that does not supply date never
\* changes the stored date, also when another Update that supplies a new
\* date has committed between this Update's read and its write.
C11_AsClaimed ==
    [][ \A r \in Slots :
            ( UpdateCommits(r) /\ req[r].body.date = Undefined )
            => store'[req[r].id].date = store[req[r].id].date ]_vars

(***************************************************************************)
(* C12                                                                     *)
(***************************************************************************)
\* C12, as claimed: once Add Participant of p on m has been answered 200, p
\* is a stored participant of m until a Remove Participant of p, an Update
\* supplying participants or a Delete of m commits, also when other Add
\* Participant requests interleave between its read and its write.
C12_AsClaimed ==
    \A i \in MeetingIds :
        store[i].exists => added[i] \subseteq Range(store[i].participants)

\* the step in which the store commits the write of request r
WriteCommits(r) == req[r].pc = "write" /\ req'[r].pc # "write"

\* p is a stored participant of meeting i before the step and not after it
Dropped(i, p) ==
    /\ store[i].exists
    /\ p \in Range(store[i].participants)
    /\ ~store'[i].exists \/ p \notin Range(store'[i].participants)

\* C12, amended: an Add Participant of p answered 200 has stored p, and p
\* stays a stored participant until a Delete, an Update supplying
\* participants, a Remove Participant of p, or the write of an Add or
\* Remove Participant whose handler read the record when p was not in it
\* (before this Add's write) commits.
C12_AddKeptUntilOverwritten ==
    [][ /\ \A r \in Slots :
               ( WriteCommits(r) /\ req[r].op = "addParticipant"
                 /\ req'[r].status = 200 )
               => req[r].body.participantId
                    \in Range(store'[req[r].id].participants)
        /\ \A i \in MeetingIds : \A p \in added[i] :
               Dropped(i, p)
               => \E r \in Slots :
                     /\ WriteCommits(r) /\ req[r].id = i
                     /\ \/ req[r].op = "delete"
                        \/ /\ req[r].op = "update"
                           /\ req[r].body.participants # UndefinedArr
                        \/ /\ req[r].op = "removeParticipant"
                           /\ req[r].participantId = p
                        \/ /\ req[r].op \in {"addParticipant",
                                             "removeParticipant"}
                           /\ p \notin Range(req[r].meetingData.participants)
      ]_vars

\* two Add Participant were in flight together, both were answered 200 and
\* both participants are stored
C12_Witness ==
    /\ \A r \in Slots :
           /\ Done(r) /\ req[r].op = "addParticipant" /\ req[r].status = 200
           /\ ~req[r].alone
    /\ req["r1"].body.participantId # req["r2"].body.participantId
    /\ \E i \in MeetingIds :
           /\ store[i].exists
           /\ added[i] = {"u2", "u3"}
           /\ added[i] \subseteq Range(store[i].participants)

=============================================================================
